---- MODULE Spec2Model ----
(***************************************************************************)
(* Model of normalize_armature_weights.py (Blender add-on "Normalize       *)
(* Armature Weights").                                                     *)
(*                                                                         *)
(* State: the object's modifier stack, its vertex-group table and active   *)
(* index, the per-vertex weight entries (vert.groups), the interaction     *)
(* mode and the tool setting vertex_group_weight.                          *)
(*                                                                         *)
(* Weights are Python floats in the source.  They are modelled as exact    *)
(* rationals <<numerator, denominator>> (denominator > 0, lowest terms):   *)
(* every comparison and arithmetic step of the source is carried out       *)
(* exactly.  Rounding of IEEE arithmetic is therefore not part of the      *)
(* model.                                                                  *)
(*                                                                         *)
(* Three specifications: Spec (the operator run once or twice over painted *)
(* meshes bound to one armature), SpecDiscovery (normalize_armature over   *)
(* modifier stacks) and SpecAssign (assign_all_groups on its own).         *)
(*                                                                         *)
(* Positions in vert.groups are 1-based here (0-based in Python); the      *)
(* sentinel -1 of the source is kept.  Group indexes are 0-based as in     *)
(* the source.                                                             *)
(***************************************************************************)
EXTENDS Integers, Sequences, FiniteSets, TLC

\* ---------------------------------------------------------------- bounds
NumVerts == 1
MaxPaints == 3
MaxMods == 2
MaxRuns == 2

\* ------------------------------------------------------- exact rationals
Abs(n) == IF n < 0 THEN -n ELSE n

RECURSIVE Gcd(_, _)
Gcd(a, b) == IF b = 0 THEN a ELSE Gcd(b, a % b)

Rat(n, d) ==
    LET s == IF d < 0 THEN -1 ELSE 1
        g == Gcd(Abs(n), Abs(d))
    IN  <<(s * n) \div g, (s * d) \div g>>

Zero == <<0, 1>>
One == <<1, 1>>

Add(a, b) == Rat(a[1] * b[2] + b[1] * a[2], a[2] * b[2])
Sub(a, b) == Rat(a[1] * b[2] - b[1] * a[2], a[2] * b[2])
Mul(a, b) == Rat(a[1] * b[1], a[2] * b[2])
Div(a, b) == Rat(a[1] * b[2], a[2] * b[1])
Less(a, b) == a[1] * b[2] < b[1] * a[2]
Leq(a, b) == a[1] * b[2] <= b[1] * a[2]
Min(a, b) == IF Less(b, a) THEN b ELSE a
Max(a, b) == IF Less(a, b) THEN b ELSE a

\* ------------------------------------------------------------ the object
\* obj.vertex_groups: names by position; group.index is position - 1.
vertex_groups == <<"Bone_A", "Bone_B", "Bone_C">>

GroupIds == 0 .. (Len(vertex_groups) - 1)
GroupName(index) == vertex_groups[index + 1]
Verts == 0 .. (NumVerts - 1)

\* Weights the host may paint: below range, two inside (0,1), above range.
\* (Entries at 0.0 and at 1.0 come from assign_all_groups and from clamping.)
PaintWeights == {<<-1, 2>>, <<1, 4>>, <<1, 2>>, <<5, 4>>}

\* Skeletons (bone name lists) an armature object may carry.
Skeletons == {<<"Bone_A">>, <<"Bone_A", "Bone_B">>, <<"Bone_A", "Bone_B", "Bone_C">>}

\* mod.object is <<>> for None and <<bones>> for an armature object whose
\* data.bones carry the names in `bones`.
NoObject == <<>>
Armature(bones) == <<bones>>

Modifier(type, use_vertex_groups, object) ==
    [type |-> type, use_vertex_groups |-> use_vertex_groups, object |-> object]

\* Modifiers the host may add in the discovery specification.
ModifierKinds ==
    {Modifier("SUBSURF", FALSE, NoObject),
     Modifier("ARMATURE", FALSE, Armature(<<"Bone_A", "Bone_B">>)),
     Modifier("ARMATURE", TRUE, NoObject),
     Modifier("ARMATURE", TRUE, Armature(<<>>)),
     Modifier("ARMATURE", TRUE, Armature(<<"Bone_A">>)),
     Modifier("ARMATURE", TRUE, Armature(<<"Bone_B", "Bone_Z">>)),
     Modifier("ARMATURE", TRUE, Armature(<<"Bone_A", "Bone_B">>))}

VARIABLES
    modifiers,            \* obj.modifiers
    active_index,         \* obj.vertex_groups.active_index
    verts,                \* vert.index -> vert.groups, a sequence of [group, weight]
    mode,                 \* obj.mode, as the words between underscores
    vertex_group_weight,  \* context.scene.tool_settings.vertex_group_weight
    result,               \* what the last call returned
    reports,              \* what the last call reported through cls.report
    used_bones,           \* the local `bones` of the last normalize_armature call
    last,                 \* the last operation and its arguments
    pre,                  \* the state before the last operation
    paints,               \* host edits so far
    runs                  \* calls so far

vars == <<modifiers, active_index, verts, mode, vertex_group_weight, result,
          reports, used_bones, last, pre, paints, runs>>

Range(seq) == {seq[i] : i \in 1 .. Len(seq)}

\* ------------------------------------------------------------------ modes
\* context.mode for an object mode (the host's naming: 'EDIT' is 'EDIT_MESH'
\* for a mesh, '<X>_PAINT' is 'PAINT_<X>', other modes keep their name).
ContextMode(objmode) ==
    IF objmode = <<"EDIT">> THEN <<"EDIT", "MESH">>
    ELSE IF Len(objmode) = 2 THEN <<objmode[2], objmode[1]>>
    ELSE objmode

\* restore_mode: the argument of bpy.ops.object.mode_set for a context mode.
restore_mode(m) ==
    IF "EDIT" \in Range(m) THEN <<"EDIT">>
    ELSE IF Len(m) > 1 THEN <<m[Len(m)], m[1]>>
    ELSE m

\* ------------------------------------------------------ assign_all_groups
HasGroup(groups, index) == \E i \in 1 .. Len(groups) : groups[i].group = index

\* Faulty variants of NotFound: every vertex is selected; no vertex is.
NotFoundAll(vs, index) == DOMAIN vs
NotFoundNone(vs, index) == {}

\* not_found[x]: the vertices with no entry for group `index`.
NotFound(vs, index) == {v \in DOMAIN vs : ~HasGroup(vs[v], index)}

\* bpy.ops.object.vertex_group_assign(): every selected vertex gets the
\* active group at the tool weight (the entry is created when missing).
AssignEntry(groups, index, weight) ==
    IF HasGroup(groups, index)
    THEN [i \in 1 .. Len(groups) |->
            IF groups[i].group = index
            THEN [groups[i] EXCEPT !.weight = weight] ELSE groups[i]]
    ELSE Append(groups, [group |-> index, weight |-> weight])

vertex_group_assign(vs, selected, index, weight) ==
    [v \in DOMAIN vs |->
        IF v \in selected THEN AssignEntry(vs[v], index, weight) ELSE vs[v]]

RECURSIVE AssignLoop(_, _, _, _, _)
AssignLoop(c, group_indexes, not_found, x, n) ==
    IF x > n THEN c
    ELSE AssignLoop(
            [c EXCEPT !.active_index = group_indexes[x],
                      !.verts = vertex_group_assign(c.verts, not_found[x],
                                    group_indexes[x], c.vertex_group_weight)],
            group_indexes, not_found, x + 1, n)

\* c is the context: [modifiers, active_index, verts, mode, vertex_group_weight].
assign_all_groups(c, group_indexes) ==
    LET saved_mode == ContextMode(c.mode)
        old_weight == c.vertex_group_weight
        c1 == [c EXCEPT !.mode = <<"EDIT">>]
        saved_active == c1.active_index
        c2 == [c1 EXCEPT !.vertex_group_weight = Zero]
        not_found == [x \in 1 .. Len(group_indexes) |->
                        NotFound(c2.verts, group_indexes[x])]
        c3 == AssignLoop(c2, group_indexes, not_found, 1, Len(group_indexes))
    IN  [c3 EXCEPT !.mode = restore_mode(saved_mode),
                   !.vertex_group_weight = old_weight,
                   !.active_index = saved_active]

\* ----------------------------------------------------- normalize_armature
\* The modifier loop: `bones` is overwritten by every qualifying modifier met,
\* and the loop stops at the second one.
Qualifies(mod) ==
    mod.type = "ARMATURE" /\ mod.use_vertex_groups /\ mod.object # NoObject

RECURSIVE FindArmature(_, _, _, _)
FindArmature(mods, i, bones, armatures) ==
    IF i > Len(mods) THEN [bones |-> bones, armatures |-> armatures]
    ELSE IF Qualifies(mods[i])
    THEN IF armatures + 1 = 2
         THEN [bones |-> mods[i].object[1], armatures |-> 2]
         ELSE FindArmature(mods, i + 1, mods[i].object[1], armatures + 1)
    ELSE FindArmature(mods, i + 1, bones, armatures)

\* [group.index for group in obj.vertex_groups if group.name in bones]
RECURSIVE BoneIndexes(_, _)
BoneIndexes(bones, index) ==
    IF index > Len(vertex_groups) - 1 THEN <<>>
    ELSE IF GroupName(index) \in Range(bones)
    THEN <<index>> \o BoneIndexes(bones, index + 1)
    ELSE BoneIndexes(bones, index + 1)

\* max(min(weight, 1.0), 0.0)
Clamp(w) == Max(Min(w, One), Zero)

\* Faulty variant of IsBoneGroup: the membership test is dropped.
IsBoneGroupAny(entry, bone_indexes) == TRUE

IsBoneGroup(entry, bone_indexes) == entry.group \in bone_indexes

\* The gather loop over vert.groups: clamps the armature entries in place and
\* collects weights, positions, sum, sum_other and the active entry's position.
GatherInit(groups) ==
    [groups |-> groups, weights |-> <<>>, indexes |-> <<>>, sum |-> Zero,
     sum_other |-> Zero, active_group |-> -1]

RECURSIVE Gather(_, _, _, _)
Gather(acc, bone_indexes, active, x) ==
    IF x > Len(acc.groups) THEN acc
    ELSE IF IsBoneGroup(acc.groups[x], bone_indexes)
    THEN LET w == Clamp(acc.groups[x].weight)
             isActive == acc.groups[x].group = active
         IN  Gather([groups |-> [acc.groups EXCEPT ![x].weight = w],
                     weights |-> Append(acc.weights, w),
                     indexes |-> Append(acc.indexes, x),
                     sum |-> Add(acc.sum, w),
                     sum_other |-> IF isActive THEN acc.sum_other
                                   ELSE Add(acc.sum_other, w),
                     active_group |-> IF isActive THEN x ELSE acc.active_group],
                    bone_indexes, active, x + 1)
    ELSE Gather(acc, bone_indexes, active, x + 1)

\* groups[indexes[x]].weight = new[x] for every collected x in DOMAIN new.
SetCollected(g, new) ==
    [i \in 1 .. Len(g.groups) |->
        IF \E x \in DOMAIN new : g.indexes[x] = i
        THEN LET x == CHOOSE y \in DOMAIN new : g.indexes[y] = i
             IN  [g.groups[i] EXCEPT !.weight = new[x]]
        ELSE g.groups[i]]

Collected(g) == 1 .. Len(g.weights)
NotActive(g) == {x \in Collected(g) : g.indexes[x] # g.active_group}

\* Vertex not in active group: normalize proportionally.
CaseA(g) ==
    SetCollected(g, [x \in Collected(g) |-> Div(g.weights[x], g.sum_other)])

\* Faulty variant of CaseB: the active entry is zeroed with the others.
CaseBNoActive(g) ==
    SetCollected(g, [x \in Collected(g) |-> Zero])

\* Active group at or above 1: the others become zero, the active one 1.0.
CaseB(g) ==
    LET zeroed == SetCollected(g, [x \in Collected(g) |-> Zero])
    IN  [zeroed EXCEPT ![g.active_group].weight = One]

\* Faulty variant of CaseC: the active entry is rescaled with the others.
CaseCAll(g, bias) ==
    SetCollected(g, [x \in Collected(g) |->
                        Mul(bias, Div(g.weights[x], g.sum_other))])

\* Others carry weight: the remainder goes to them proportionally.
CaseC(g, bias) ==
    SetCollected(g, [x \in NotActive(g) |->
                        Mul(bias, Div(g.weights[x], g.sum_other))])

\* Only the active group carries weight: weight = bias * (1 / len(weights)).
CaseD(g, bias) ==
    LET weight == Mul(bias, Div(One, <<Len(g.weights), 1>>))
    IN  SetCollected(g, [x \in NotActive(g) |-> weight])

\* indexes.index(active_group): the position of the active entry among the
\* collected ones, 0 when it is not there (ValueError in the source).
IndexOf(indexes, active_group) ==
    IF \E x \in 1 .. Len(indexes) : indexes[x] = active_group
    THEN CHOOSE x \in 1 .. Len(indexes) : indexes[x] = active_group
    ELSE 0

\* The "Apply normalization" part of the loop body, on the gathered data g:
\* the vertex's groups afterwards, and whether the lookup of the active
\* entry raised.
ApplyNormalization(g) ==
    IF g.sum = One THEN [groups |-> g.groups, raised |-> FALSE]
    ELSE IF g.active_group = -1 /\ g.sum_other # Zero
    THEN [groups |-> CaseA(g), raised |-> FALSE]
    ELSE IF IndexOf(g.indexes, g.active_group) = 0
    THEN [groups |-> g.groups, raised |-> TRUE]
    ELSE IF Leq(One, g.weights[IndexOf(g.indexes, g.active_group)])
    THEN [groups |-> CaseB(g), raised |-> FALSE]
    ELSE LET bias == Sub(One, g.groups[g.active_group].weight)
         IN  IF g.sum_other # Zero
             THEN [groups |-> CaseC(g, bias), raised |-> FALSE]
             ELSE IF g.sum # Zero /\ Len(g.weights) > 1
             THEN [groups |-> CaseD(g, bias), raised |-> FALSE]
             ELSE [groups |-> g.groups, raised |-> FALSE]

\* The body of the per-vertex loop (the gathered data is computed once).
NormalizeVertex(groups, bone_indexes, active) ==
    CHOOSE r \in {ApplyNormalization(g) :
                    g \in {Gather(GatherInit(groups), bone_indexes, active, 1)}} : TRUE

\* for vert in obj.data.vertices: ... ; an exception ends the loop at once.
RECURSIVE VertexLoop(_, _, _, _)
VertexLoop(vs, bone_indexes, active, v) ==
    IF v \notin DOMAIN vs THEN [verts |-> vs, raised |-> FALSE]
    ELSE LET r == NormalizeVertex(vs[v], bone_indexes, active)
             vs1 == [vs EXCEPT ![v] = r.groups]
         IN  IF r.raised THEN [verts |-> vs1, raised |-> TRUE]
             ELSE VertexLoop(vs1, bone_indexes, active, v + 1)

NoArmatureMsg == <<"ERROR", "No armature found on object.">>
NotOnArmatureMsg == <<"ERROR", "Current vertex group not found on armature.">>
MultipleMsg ==
    <<"WARNING", "Multiple armatures found on object.  Operator may have unexpected results.">>

Outcome(c, res, rep, bones) ==
    [context |-> c, result |-> res, reports |-> rep, bones |-> bones]

\* Faulty variant of normalize_armature: the error checks come after the
\* membership step.
normalize_armature_late(c) ==
    LET found == FindArmature(c.modifiers, 1, <<>>, 0)
        bones == found.bones
        warn == IF found.armatures > 1 THEN {MultipleMsg} ELSE {}
        bone_indexes == BoneIndexes(bones, 0)
        c1 == assign_all_groups(c, bone_indexes)
    IN  IF bones = <<>>
        THEN Outcome(c1, "CANCELLED", {NoArmatureMsg}, bones)
        ELSE IF GroupName(c.active_index) \notin Range(bones)
        THEN Outcome(c1, "CANCELLED", {NotOnArmatureMsg}, bones)
        ELSE LET loop == VertexLoop(c1.verts, Range(bone_indexes),
                                    c1.active_index, 0)
                 c2 == [c1 EXCEPT !.verts = loop.verts]
             IN  IF loop.raised
                 THEN Outcome(c2, "EXCEPTION", warn, bones)
                 ELSE Outcome(c2, "FINISHED", warn, bones)

normalize_armature(c) ==
    LET found == FindArmature(c.modifiers, 1, <<>>, 0)
        bones == found.bones
        warn == IF found.armatures > 1 THEN {MultipleMsg} ELSE {}
    IN  IF bones = <<>>
        THEN Outcome(c, "CANCELLED", {NoArmatureMsg}, bones)
        ELSE IF GroupName(c.active_index) \notin Range(bones)
        THEN Outcome(c, "CANCELLED", {NotOnArmatureMsg}, bones)
        ELSE LET bone_indexes == BoneIndexes(bones, 0)
                 c1 == assign_all_groups(c, bone_indexes)
                 loop == VertexLoop(c1.verts, Range(bone_indexes),
                                    c1.active_index, 0)
                 c2 == [c1 EXCEPT !.verts = loop.verts]
             IN  IF loop.raised
                 THEN Outcome(c2, "EXCEPTION", warn, bones)
                 ELSE Outcome(c2, "FINISHED", warn, bones)

\* ---------------------------------------------------------- state machine
Context ==
    [modifiers |-> modifiers, active_index |-> active_index, verts |-> verts,
     mode |-> mode, vertex_group_weight |-> vertex_group_weight]

Snapshot == [context |-> Context, result |-> result, op |-> last[1]]

NoMesh == [v \in Verts |-> <<>>]

InitCommon ==
    /\ active_index \in GroupIds
    /\ verts = NoMesh
    /\ vertex_group_weight = One
    /\ result = "NONE"
    /\ reports = {}
    /\ used_bones = <<>>
    /\ last = <<"none", <<>>>>
    /\ paints = 0
    /\ runs = 0
    /\ pre = [context |-> [modifiers |-> modifiers, active_index |-> active_index,
                           verts |-> NoMesh, mode |-> mode,
                           vertex_group_weight |-> One],
              result |-> "NONE", op |-> "none"]

Modes == {<<"OBJECT">>, <<"EDIT">>, <<"WEIGHT", "PAINT">>}

\* poll(): the operator is offered in WEIGHT_PAINT mode only.
poll == mode = <<"WEIGHT", "PAINT">>

\* The host paints a weight: vertex v joins group g at weight w.
Paint(v, g, w) ==
    /\ runs = 0
    /\ paints < MaxPaints
    /\ ~HasGroup(verts[v], g)
    /\ verts' = [verts EXCEPT ![v] = AssignEntry(verts[v], g, w)]
    /\ paints' = paints + 1
    /\ UNCHANGED <<modifiers, active_index, mode, vertex_group_weight, result,
                   reports, used_bones, last, pre, runs>>

\* The host adds a modifier at the end of the stack.
AddModifier(m) ==
    /\ runs = 0
    /\ Len(modifiers) < MaxMods
    /\ modifiers' = Append(modifiers, m)
    /\ UNCHANGED <<active_index, verts, mode, vertex_group_weight, result,
                   reports, used_bones, last, pre, paints, runs>>

Returns(out, op, active) ==
    /\ modifiers' = out.context.modifiers
    /\ verts' = out.context.verts
    /\ mode' = out.context.mode
    /\ vertex_group_weight' = out.context.vertex_group_weight
    /\ active_index' = active
    /\ result' = out.result
    /\ reports' = out.reports
    /\ used_bones' = out.bones
    /\ last' = op
    /\ pre' = Snapshot
    /\ runs' = runs + 1
    /\ UNCHANGED paints

\* invoke() -> execute() -> normalize_armature(); execute() then puts back
\* the active index invoke() captured (an exception skips that).
Invoke ==
    /\ runs < MaxRuns
    /\ poll
    /\ \E out \in {normalize_armature(Context)} :
          Returns(out, <<"normalize", <<>>>>,
                  IF out.result = "EXCEPTION"
                  THEN out.context.active_index ELSE active_index)

\* A script calls normalize_armature(cls, context) itself, in any mode.
Call ==
    /\ runs < MaxRuns
    /\ \E out \in {normalize_armature(Context)} :
          Returns(out, <<"normalize", <<>>>>, out.context.active_index)

\* A script calls assign_all_groups(context, group_indexes) itself.
AssignAllGroups(group_indexes) ==
    /\ runs < MaxRuns
    /\ \E c \in {assign_all_groups(Context, group_indexes)} :
          Returns([context |-> c, result |-> "NONE", reports |-> {},
                   bones |-> <<>>],
                  <<"assign", group_indexes>>, c.active_index)

\* Normalization of painted meshes bound to one armature.
Init ==
    /\ modifiers \in {<<Modifier("ARMATURE", TRUE, Armature(s))>> : s \in Skeletons}
    /\ mode = <<"WEIGHT", "PAINT">>
    /\ InitCommon

Next ==
    \/ \E v \in Verts, g \in GroupIds, w \in PaintWeights : Paint(v, g, w)
    \/ Invoke

Spec == Init /\ [][Next]_vars

\* Armature discovery over modifier stacks, on a fixed mesh.
SampleMesh ==
    [v \in Verts |->
        IF v = 0
        THEN <<[group |-> 2, weight |-> <<1, 2>>], [group |-> 1, weight |-> <<1, 4>>]>>
        ELSE <<>>]

InitDiscovery ==
    /\ modifiers = <<>>
    /\ mode \in Modes
    /\ InitCommon

PaintSample ==
    /\ runs = 0
    /\ paints = 0
    /\ verts' = SampleMesh
    /\ paints' = MaxPaints
    /\ UNCHANGED <<modifiers, active_index, mode, vertex_group_weight, result,
                   reports, used_bones, last, pre, runs>>

NextDiscovery ==
    \/ \E m \in ModifierKinds : AddModifier(m)
    \/ PaintSample
    \/ Call

SpecDiscovery == InitDiscovery /\ [][NextDiscovery]_vars

\* assign_all_groups on its own, over painted meshes and group lists.
AssignWeights == {Zero, <<5, 4>>}
GroupLists == {<<>>, <<1>>, <<0, 2>>, <<2, 0>>, <<1, 1>>, <<0, 1, 2>>}

InitAssign ==
    /\ modifiers = <<>>
    /\ mode \in Modes
    /\ InitCommon

NextAssign ==
    \/ \E v \in Verts, g \in GroupIds, w \in AssignWeights : Paint(v, g, w)
    \/ \E group_indexes \in GroupLists : AssignAllGroups(group_indexes)

SpecAssign == InitAssign /\ [][NextAssign]_vars

\* ------------------------------------------------------------ properties
\* What the formulas below read from a state: the call that led to it, the
\* mesh before that call (pre) and the mesh now.
PreVerts == pre.context.verts
PreActive == pre.context.active_index
Normalized == last[1] = "normalize" /\ result = "FINISHED"
BoneIds == Range(BoneIndexes(used_bones, 0))

WeightOf(groups, index) ==
    groups[CHOOSE i \in 1 .. Len(groups) : groups[i].group = index].weight

\* The weight a vertex carries for a group; a vertex outside the group has none.
WeightOrZero(groups, index) ==
    IF HasGroup(groups, index) THEN WeightOf(groups, index) ELSE Zero

RECURSIVE SumOver(_, _)
SumOver(groups, ids) ==
    IF groups = <<>> THEN Zero
    ELSE Add(IF Head(groups).group \in ids THEN Head(groups).weight ELSE Zero,
             SumOver(Tail(groups), ids))

RECURSIVE SumClamped(_, _)
SumClamped(groups, ids) ==
    IF groups = <<>> THEN Zero
    ELSE Add(IF Head(groups).group \in ids THEN Clamp(Head(groups).weight) ELSE Zero,
             SumClamped(Tail(groups), ids))

Tolerance == <<1, 1000000>>
Within(a, b) ==
    LET d == Sub(a, b) IN Leq(<<Abs(d[1]), d[2]>>, Tolerance)

\* The vertices of the last call that had a positive armature weight.
HadArmatureWeight(v) ==
    \E i \in 1 .. Len(PreVerts[v]) :
        /\ PreVerts[v][i].group \in BoneIds
        /\ Less(Zero, PreVerts[v][i].weight)

\* C1: after a successful normalize_armature every vertex that had a nonzero
\* armature weight has armature weights summing to 1.0 (within 1e-6).  Stated
\* here for armatures with at least two groups and for weights that are
\* positive, the cases the source's own branches are written for.
C1_SumInvariant ==
    (Normalized /\ Cardinality(BoneIds) > 1) =>
        \A v \in Verts :
            HadArmatureWeight(v) => Within(SumOver(verts[v], BoneIds), One)

\* C4: a second successful normalize_armature right after a first one leaves
\* every vertex's weights as the first one left them.
C4_Idempotent ==
    (Normalized /\ pre.op = "normalize" /\ pre.result = "FINISHED") =>
        verts = PreVerts

\* The active weight of v before the call, as the gather loop clamps it.
ActiveBefore(v) == Clamp(WeightOrZero(PreVerts[v], PreActive))
OtherBones == BoneIds \ {PreActive}
SumOtherBefore(v) == SumClamped(PreVerts[v], OtherBones)

\* C9: a vertex whose active weight is in (0,1), whose other armature weights
\* are all zero and which has count > 1 armature entries gets
\* (1.0 - active_weight) / (count - 1) on every other armature entry, the
\* active weight unchanged.
C9_EvenDistribution ==
    Normalized =>
        \A v \in Verts :
            (/\ Less(Zero, ActiveBefore(v)) /\ Less(ActiveBefore(v), One)
             /\ SumOtherBefore(v) = Zero
             /\ Cardinality(BoneIds) > 1) =>
                /\ WeightOf(verts[v], PreActive) = ActiveBefore(v)
                /\ \A g \in OtherBones :
                      WeightOf(verts[v], g) =
                          Div(Sub(One, ActiveBefore(v)),
                              <<Cardinality(BoneIds) - 1, 1>>)

\* C5: normalize_armature leaves the weight of every entry of a group outside
\* the armature's group ids as it was, deletes no entry, and adds entries for
\* armature groups only.
C5_NonInterference ==
    last[1] = "normalize" =>
        \A v \in Verts :
            /\ Len(verts[v]) >= Len(PreVerts[v])
            /\ \A i \in 1 .. Len(PreVerts[v]) :
                  /\ verts[v][i].group = PreVerts[v][i].group
                  /\ PreVerts[v][i].group \notin BoneIds =>
                        verts[v][i].weight = PreVerts[v][i].weight
            /\ \A i \in (Len(PreVerts[v]) + 1) .. Len(verts[v]) :
                  verts[v][i].group \in BoneIds

\* A run that rewrote a vertex carrying an out-of-range weight on a group
\* outside the armature.
C5_Witness ==
    /\ Normalized
    /\ \E v \in Verts :
          /\ verts[v] # PreVerts[v]
          /\ \E i \in 1 .. Len(PreVerts[v]) :
                /\ PreVerts[v][i].group \notin BoneIds
                /\ PreVerts[v][i].weight = <<5, 4>>
          /\ \E i \in 1 .. Len(PreVerts[v]) :
                /\ PreVerts[v][i].group \in BoneIds
                /\ verts[v][i].weight # PreVerts[v][i].weight

\* The vertices Case C is about: active weight in (0,1), others sum above 0.
CaseCVertex(v) ==
    /\ Less(Zero, ActiveBefore(v)) /\ Less(ActiveBefore(v), One)
    /\ Less(Zero, SumOtherBefore(v))

\* C6: for a vertex with active weight a in (0,1) and other armature weights
\* (clamped) summing above 0, the active weight is exactly a after the call
\* and every other armature weight w is (1 - a) * (w / sum_other).
C6_ActivePreserved ==
    Normalized =>
        \A v \in Verts :
            CaseCVertex(v) =>
                /\ WeightOf(verts[v], PreActive) = WeightOf(PreVerts[v], PreActive)
                /\ \A g \in OtherBones :
                      WeightOf(verts[v], g) =
                          Mul(Sub(One, ActiveBefore(v)),
                              Div(Clamp(WeightOrZero(PreVerts[v], g)),
                                  SumOtherBefore(v)))

\* A Case C vertex with two other armature weights, different and positive,
\* which the run rewrote.
C6_Witness ==
    /\ Normalized
    /\ \E v \in Verts :
          /\ CaseCVertex(v)
          /\ verts[v] # PreVerts[v]
          /\ \E g, h \in OtherBones :
                /\ Less(Zero, WeightOrZero(PreVerts[v], g))
                /\ Less(WeightOrZero(PreVerts[v], g), WeightOrZero(PreVerts[v], h))

C10_LookupNeverFails ==
    last[1] = "normalize" =>
        /\ result # "EXCEPTION"
        /\ result = "FINISHED" => \A v \in Verts : HasGroup(verts[v], PreActive)

\* A finished run over a vertex that had no weights at all, and so reached
\* the lookup with every armature weight at zero.
C10_Witness ==
    /\ Normalized
    /\ \E v \in Verts :
          /\ PreVerts[v] = <<>>
          /\ SumOver(verts[v], BoneIds) = Zero
          /\ HasGroup(verts[v], PreActive)

\* C8: after assign_all_groups(context, G) each vertex's entries are its
\* original entries, weights untouched, followed by one 0.0 entry for exactly
\* the ids of G it lacked; it has an entry for every id of G; an empty G
\* changes nothing.
C8_Membership ==
    last[1] = "assign" =>
        \A v \in Verts :
            LET old == Len(PreVerts[v])
                new == (old + 1) .. Len(verts[v])
            IN  /\ Len(verts[v]) >= old
                /\ SubSeq(verts[v], 1, old) = PreVerts[v]
                /\ \A i \in new :
                      /\ verts[v][i].weight = Zero
                      /\ verts[v][i].group \in Range(last[2])
                      /\ ~HasGroup(PreVerts[v], verts[v][i].group)
                      /\ \A j \in new : verts[v][j].group = verts[v][i].group => j = i
                /\ \A g \in Range(last[2]) : HasGroup(verts[v], g)
                /\ last[2] = <<>> => verts[v] = PreVerts[v]

\* A call whose list names a group the vertex had above range, a group it
\* had at 0.0 and a group it lacked.
C8_Witness ==
    /\ last[1] = "assign"
    /\ \E v \in Verts :
          \E g, h, k \in Range(last[2]) :
              /\ HasGroup(PreVerts[v], g) /\ WeightOf(PreVerts[v], g) = <<5, 4>>
              /\ HasGroup(PreVerts[v], h) /\ WeightOf(PreVerts[v], h) = Zero
              /\ ~HasGroup(PreVerts[v], k)
              /\ HasGroup(verts[v], k)

\* The skeletons of the qualifying bindings, in modifier order.
RECURSIVE QualifyingBones(_)
QualifyingBones(mods) ==
    IF mods = <<>> THEN <<>>
    ELSE (IF Qualifies(Head(mods)) THEN <<Head(mods).object[1]>> ELSE <<>>)
         \o QualifyingBones(Tail(mods))

C3_CancelledChangesNothing ==
    (last[1] = "normalize" /\ result = "CANCELLED") => Context = pre.context

\* A call cancelled because the active group is no bone of the armature
\* found, on a mesh where the membership step would have added entries.
C3_Witness ==
    /\ last[1] = "normalize"
    /\ result = "CANCELLED"
    /\ reports = {NotOnArmatureMsg}
    /\ \E v \in Verts : verts[v] # <<>>
    /\ \E v \in Verts, g \in BoneIds : ~HasGroup(verts[v], g)

====
